---- MODULE Spec2Model ----
(***************************************************************************)
(* Model of homeassistant/components/bayesian/config_flow.py: the config   *)
(* flow and options flow of the Bayesian binary sensor, the percentage /   *)
(* fraction conversions applied at the form boundary, the validators, and  *)
(* the websocket preview handler.                                          *)
(*                                                                         *)
(* Numbers entered in the forms are Python floats.  `value / 100` and      *)
(* `value * 100` are IEEE-754 binary64 operations, so they are modelled as *)
(* correctly rounded (round-half-to-even) operations on a 53 bit mantissa. *)
(* TLC's integers are 32 bit, so a mantissa is kept as four 16 bit limbs,  *)
(* least significant first.                                                *)
(***************************************************************************)
EXTENDS Integers, Sequences, FiniteSets, TLC

\* ------------------------------------------------------------------------
\* binary64 arithmetic (the `/ 100` and `* 100` of the two conversions)
\* ------------------------------------------------------------------------

LimbBase == 2^16

ZeroLimbs == [i \in 1..4 |-> 0]

\* 2^k as limbs, 0 <= k < 64
Pow2Limbs(k) == [i \in 1..4 |-> IF i = (k \div 16) + 1 THEN 2^(k % 16) ELSE 0]

\* a small natural (below 2^31) as limbs
LimbsOfInt(n) ==
    [i \in 1..4 |-> IF i = 1 THEN n % LimbBase
                         ELSE IF i = 2 THEN (n \div LimbBase) % LimbBase
                         ELSE 0]

RECURSIVE CmpFrom(_, _, _)
\* -1, 0, 1 as N < M, N = M, N > M, comparing limbs i, i-1, ..., 1
CmpFrom(N, M, i) ==
    IF i = 0 THEN 0
    ELSE IF N[i] < M[i] THEN -1
    ELSE IF N[i] > M[i] THEN 1
    ELSE CmpFrom(N, M, i - 1)

LimbsLess(N, M) == CmpFrom(N, M, 4) < 0

\* N * c + carry for small c and carry (the result stays below 2^64)
MulAdd(N, c, carry) ==
    LET t1 == N[1] * c + carry
        t2 == N[2] * c + (t1 \div LimbBase)
        t3 == N[3] * c + (t2 \div LimbBase)
        t4 == N[4] * c + (t3 \div LimbBase)
    IN  <<t1 % LimbBase, t2 % LimbBase, t3 % LimbBase, t4 % LimbBase>>

MulSmall(N, c) == MulAdd(N, c, 0)

\* [q |-> N div c, r |-> N mod c] by long division, for a small c
DivSmall(N, c) ==
    LET t4 == N[4]
        t3 == (t4 % c) * LimbBase + N[3]
        t2 == (t3 % c) * LimbBase + N[2]
        t1 == (t2 % c) * LimbBase + N[1]
    IN  [q |-> <<t1 \div c, t2 \div c, t3 \div c, t4 \div c>>, r |-> t1 % c]

AddOne(N) == MulAdd(N, 1, 1)

IsOdd(N) == N[1] % 2 = 1

\* A finite non-negative binary64: man * 2^exp with man = 0 (and exp = 0) or
\* 2^52 <= man < 2^53.
Double(man, exp) == [man |-> man, exp |-> exp]

DZero == Double(ZeroLimbs, 0)

IsZero(x) == x.man = ZeroLimbs

\* N / c rounded half-to-even to an integer mantissa, where 2^52 <= N div c < 2^53
RoundQuot(N, c, e) ==
    LET d  == DivSmall(N, c)
        up == (2 * d.r > c) \/ (2 * d.r = c /\ IsOdd(d.q))
        m  == IF up THEN AddOne(d.q) ELSE d.q
    IN  IF m = Pow2Limbs(53) THEN Double(Pow2Limbs(52), e + 1) ELSE Double(m, e)

RECURSIVE NormaliseUp(_, _, _)
\* scale N * 2^e by powers of two until N >= lo
NormaliseUp(N, lo, e) ==
    IF N[4] = 0 /\ LimbsLess(MulSmall(N, 128), lo)
    THEN NormaliseUp(MulSmall(N, 256), lo, e - 8)
    ELSE IF LimbsLess(N, lo) THEN NormaliseUp(MulSmall(N, 2), lo, e - 1)
    ELSE [n |-> N, e |-> e]

\* float(n) for an integer 0 <= n < 2^31 (exact)
FloatOfInt(n) ==
    IF n = 0 THEN DZero
    ELSE LET s == NormaliseUp(LimbsOfInt(n), Pow2Limbs(52), 0)
         IN  Double(s.n, s.e)

\* the floats of the whole numbers a slider can give, computed once
SmallFloats == [n \in 0..100 |-> FloatOfInt(n)]

DoubleOfInt(n) == IF n \in DOMAIN SmallFloats THEN SmallFloats[n] ELSE FloatOfInt(n)

\* x / c in binary64, c a small positive integer (c = 100 in the source)
FloatDiv(x, c) ==
    IF IsZero(x) THEN DZero
    ELSE LET s == NormaliseUp(x.man, MulSmall(Pow2Limbs(52), c), x.exp)
         IN  RoundQuot(s.n, c, s.e)

RECURSIVE ShiftFor(_, _)
\* the least s with N div 2^s < 2^53
ShiftFor(N, s) ==
    IF LimbsLess(DivSmall(N, 2^s).q, Pow2Limbs(53)) THEN s ELSE ShiftFor(N, s + 1)

\* x * c in binary64, c a small positive integer (c = 100 in the source)
FloatMul(x, c) ==
    IF IsZero(x) THEN DZero
    ELSE LET N == MulSmall(x.man, c)
             s == ShiftFor(N, 0)
         IN  RoundQuot(N, 2^s, x.exp + s)

\* The two operations of the conversions.  The quotients of the whole numbers
\* 0..100 and the products of those quotients are computed once and looked up;
\* any other operand is computed by FloatDiv or FloatMul directly.
Fractions == [p \in 0..100 |-> FloatDiv(SmallFloats[p], 100)]

BackPercentages == [p \in 0..100 |-> FloatMul(Fractions[p], 100)]

\* floor(x) for a double below 2^20, any integer otherwise
Floor(x) ==
    IF IsZero(x) THEN 0
    ELSE IF x.exp > -32 THEN -1
    ELSE IF x.exp < -52 THEN 0
    ELSE (x.man[4] * LimbBase + x.man[3]) \div 2^(-x.exp - 32)

\* floor(100 * x) up to one unit, from the leading 21 bits of the mantissa
Floor100(x) ==
    IF IsZero(x) THEN 0
    ELSE IF x.exp > -46 \/ x.exp < -62 THEN -1
    ELSE ((x.man[4] * LimbBase + x.man[3]) * 100) \div 2^(-x.exp - 32)

\* value / 100
Div100(x) ==
    LET p == Floor(x)
    IN  IF p \in DOMAIN SmallFloats /\ SmallFloats[p] = x THEN Fractions[p]
        ELSE FloatDiv(x, 100)

\* value * 100
Mul100(x) ==
    LET p == Floor100(x)
    IN  IF p \in DOMAIN Fractions /\ Fractions[p] = x THEN BackPercentages[p]
        ELSE IF p + 1 \in DOMAIN Fractions /\ Fractions[p + 1] = x
        THEN BackPercentages[p + 1]
        ELSE FloatMul(x, 100)

\* x < y for doubles that are zero or normalised
DoubleLess(x, y) ==
    IF IsZero(y) THEN FALSE
    ELSE IF IsZero(x) THEN TRUE
    ELSE IF x.exp # y.exp THEN x.exp < y.exp
    ELSE LimbsLess(x.man, y.man)

\* ------------------------------------------------------------------------
\* Python values and dictionaries
\* ------------------------------------------------------------------------

\* int / float (kept as a binary64), str, bool, list
Num(d) == [t |-> "num", n |-> d]

Str(s) == [t |-> "str", s |-> s]

Bool(b) == [t |-> "bool", n |-> DoubleOfInt(IF b THEN 1 ELSE 0)]

List(items) == [t |-> "list", items |-> items]

\* a whole number entered in a form
Pct(p) == Num(DoubleOfInt(p))

EmptyDict == [k \in {} |-> TRUE]

\* dict.update(u)
Update(d, u) ==
    [k \in DOMAIN d \cup DOMAIN u |-> IF k \in DOMAIN u THEN u[k] ELSE d[k]]

\* the dictionary without the keys K (dict.pop(key, None) for each)
Without(d, K) == [k \in DOMAIN d \ K |-> d[k]]

\* isinstance(value, (int, float)); bool is a subclass of int
IsNumber(v) == v.t \in {"num", "bool"}

\* Python truthiness of the values the flows store
Truthy(v) ==
    CASE v.t = "str"  -> v.s # ""
      [] v.t = "list" -> v.items # <<>>
      [] OTHER        -> ~IsZero(v.n)

CONF_P_GIVEN_T == "p_given_true"

CONF_P_GIVEN_F == "p_given_false"

CONF_PRIOR == "prior"

CONF_PROBABILITY_THRESHOLD == "probability_threshold"

CONF_OBSERVATIONS == "observations"

CONF_NAME == "name"

CONF_PLATFORM == "platform"

CONF_DEVICE_CLASS == "device_class"

CONF_VALUE_TEMPLATE == "value_template"

\* the slider maximum of every percentage field
MaxPct == 100

\* the `percentages` list of both conversions
Percentages ==
    {CONF_P_GIVEN_T, CONF_P_GIVEN_F, CONF_PRIOR, CONF_PROBABILITY_THRESHOLD}

\* the keys _convert_fractions_to_percentages treats as percentages (its own
\* copy of the list)
PercentagesBack ==
    {CONF_P_GIVEN_T, CONF_P_GIVEN_F, CONF_PRIOR, CONF_PROBABILITY_THRESHOLD}

M_ConvertNoKeyTest(data) ==
    [key \in DOMAIN data |->
        IF IsNumber(data[key]) THEN Num(Div100(data[key].n))
        ELSE data[key]]

_convert_percentages_to_fractions(data) ==
    [key \in DOMAIN data |->
        IF IsNumber(data[key]) /\ key \in Percentages
        THEN Num(Div100(data[key].n))
        ELSE data[key]]

_convert_fractions_to_percentages(data) ==
    [key \in DOMAIN data |->
        IF IsNumber(data[key]) /\ key \in PercentagesBack
        THEN Num(Mul100(data[key].n))
        ELSE data[key]]

\* ------------------------------------------------------------------------
\* State
\* ------------------------------------------------------------------------

VARIABLES
    entry,      \* <<>> or <<options of the config entry>> (persisted by the host)
    flow,       \* "none", "config" or "options": the flow in progress
    step,       \* the step the flow is at
    options,    \* handler.options of the flow in progress
    shown,      \* the form or menu shown: its schema and suggested values
    last,       \* the last operation: its step, input, options before, error
    validObs,   \* observation forms accepted in the flow in progress
    nflows,     \* flows started so far
    convIn,     \* conversions: the input dictionary
    convOut,    \* conversions: _convert_percentages_to_fractions(convIn)
    convBack,   \* conversions: _convert_fractions_to_percentages(convOut)
    convPc,     \* conversions: "input", "fractions" or "percentages"
    wsReq,      \* preview: the template/start_preview message
    wsPc,       \* preview: "idle", "pending" or "done"
    wsErrors,   \* preview: the keys _validate reported
    wsSent,     \* preview: the messages sent on the connection, in order
    wsSubs,     \* preview: the ids in connection.subscriptions
    wsPreviews  \* preview: the ids whose preview entity was started

flowVars == <<entry, flow, step, options, shown, last, validObs, nflows>>

convVars == <<convIn, convOut, convBack, convPc>>

wsVars == <<wsReq, wsPc, wsErrors, wsSent, wsSubs, wsPreviews>>

vars == <<entry, flow, step, options, shown, last, validObs, nflows,
          convIn, convOut, convBack, convPc,
          wsReq, wsPc, wsErrors, wsSent, wsSubs, wsPreviews>>

\* ------------------------------------------------------------------------
\* Bounds and form inputs
\* ------------------------------------------------------------------------

\* observations kept in one entry
MaxObs == 2

\* flows started in one behaviour
MaxFlows == 3

\* whole percentages entered for prior
PriorPcts == {0, 1, 50, MaxPct}

\* whole percentages entered for probability_threshold
ThresholdPcts == {0, 99, MaxPct}

\* whole percentages entered for p_given_true
TruePcts == {14, 80}

\* whole percentages entered for p_given_false
FalsePcts == {14}

\* names typed into the observation forms that add, and into the one that edits
AddNames == {"a"}

EditNames == {"b"}

\* str(index) for the positions of the observations list
StrOfIndex == <<"0", "1", "2", "3", "4", "5", "6", "7", "8", "9">>

\* int(s) for such a string
IntOfStr(s) == CHOOSE i \in 0..(Len(StrOfIndex) - 1) : StrOfIndex[i + 1] = s

\* ------------------------------------------------------------------------
\* Step graph
\* ------------------------------------------------------------------------

\* class ObservationTypes, in declaration order (ObservationTypes.list())
ObservationTypes == <<"state", "numeric_state", "template">>

\* class OptionsFlowSteps, in declaration order
OptionsFlowSteps ==
    <<"init", "base_options", "observation_selector",
      "select_edit_observation", "edit_observation", "remove_observation">>

M_list_primary_steps_keeps_edit ==
    SelectSeq(OptionsFlowSteps, LAMBDA c : c # "init")

list_primary_steps ==
    SelectSeq(OptionsFlowSteps, LAMBDA c : c \notin {"init", "edit_observation"})

Range(s) == {s[i] : i \in DOMAIN s}

FormStep(schema, validator, next, suggested) ==
    [type |-> "form", schema |-> schema, menu |-> <<>>,
     validate_user_input |-> validator, next_step |-> next,
     suggested_values |-> suggested]

MenuStep(menu) ==
    [type |-> "menu", schema |-> "menu", menu |-> menu,
     validate_user_input |-> "None", next_step |-> "None",
     suggested_values |-> "None"]

M_CONFIG_FLOW_always_finishes ==
    ("user" :> FormStep("CONFIG_SCHEMA", "_validate_user", "observation_selector",
                         "UNDEFINED"))
    @@ ("observation_selector" :> MenuStep(ObservationTypes))
    @@ ("state" :> FormStep("STATE_SUBSCHEMA+ADD_ANOTHER",
                            "_validate_observation_setup", "None", "None"))
    @@ ("numeric_state" :> FormStep("NUMERIC_STATE_SUBSCHEMA+ADD_ANOTHER",
                                    "_validate_observation_setup", "None", "None"))
    @@ ("template" :> FormStep("TEMPLATE_SUBSCHEMA+ADD_ANOTHER",
                               "_validate_observation_setup", "None", "None"))

CONFIG_FLOW ==
    ("user" :> FormStep("CONFIG_SCHEMA", "_validate_user", "observation_selector",
                         "UNDEFINED"))
    @@ ("observation_selector" :> MenuStep(ObservationTypes))
    @@ ("state" :> FormStep("STATE_SUBSCHEMA+ADD_ANOTHER",
                            "_validate_observation_setup", "_choose_observation_step",
                  "None"))
    @@ ("numeric_state" :> FormStep("NUMERIC_STATE_SUBSCHEMA+ADD_ANOTHER",
                                    "_validate_observation_setup", "_choose_observation_step",
                  "None"))
    @@ ("template" :> FormStep("TEMPLATE_SUBSCHEMA+ADD_ANOTHER",
                               "_validate_observation_setup", "_choose_observation_step",
                  "None"))

\* the dictionary literal, then OPTIONS_FLOW.update(CONFIG_FLOW)
OPTIONS_FLOW ==
    Update(
        ("init" :> MenuStep(list_primary_steps))
        @@ ("base_options" :> FormStep("OPTIONS_SCHEMA", "_validate_user", "None",
                                         "_get_base_suggested_values"))
        @@ ("select_edit_observation" :>
                FormStep("_get_select_observation_schema", "None", "edit_observation",
                         "None"))
        @@ ("edit_observation" :>
                FormStep("_get_edit_observation_schema",
                         "_validate_observation_setup", "None",
                         "_get_edit_observation_suggested_values"))
        @@ ("remove_observation" :>
                FormStep("_get_remove_observation_schema",
                         "_validate_remove_observation", "None", "None")),
        CONFIG_FLOW)

\* BayesianConfigFlowHandler.config_flow / .options_flow
FlowOf(kind) == IF kind = "config" THEN CONFIG_FLOW ELSE OPTIONS_FLOW

\* ------------------------------------------------------------------------
\* Schemas and suggested values
\* ------------------------------------------------------------------------

\* handler.options[CONF_OBSERVATIONS] where the key is known to be present
Obs(d) == IF CONF_OBSERVATIONS \in DOMAIN d THEN d[CONF_OBSERVATIONS].items ELSE <<>>

SchemaNamed(name) == [name |-> name, choices |-> {}]

\* vol.In over str(index) of every stored observation
_get_select_observation_schema(opts) ==
    IF CONF_OBSERVATIONS \notin DOMAIN opts THEN SchemaNamed("KeyError")
    ELSE [name |-> "select",
          choices |-> {StrOfIndex[i] : i \in 1..Len(Obs(opts))}]

\* cv.multi_select over str(index) of every stored observation
_get_remove_observation_schema(opts) ==
    IF CONF_OBSERVATIONS \notin DOMAIN opts THEN SchemaNamed("KeyError")
    ELSE [name |-> "remove",
          choices |-> {StrOfIndex[i] : i \in 1..Len(Obs(opts))}]

\* the subschema of the selected observation's platform
_get_edit_observation_schema(opts) ==
    IF CONF_OBSERVATIONS \notin DOMAIN opts \/ "index" \notin DOMAIN opts
    THEN SchemaNamed("KeyError")
    ELSE LET observations == Obs(opts)
             selected_idx == IntOfStr(opts["index"].s)
         IN  IF selected_idx >= Len(observations) THEN SchemaNamed("IndexError")
             ELSE LET platform == observations[selected_idx + 1][CONF_PLATFORM].s
                  IN  IF platform = ObservationTypes[1]
                      THEN SchemaNamed("STATE_SUBSCHEMA")
                      ELSE IF platform = ObservationTypes[2]
                      THEN SchemaNamed("NUMERIC_STATE_SUBSCHEMA")
                      ELSE IF platform = ObservationTypes[3]
                      THEN SchemaNamed("TEMPLATE_SUBSCHEMA")
                      ELSE SchemaNamed("None")

_get_base_suggested_values(opts) == _convert_fractions_to_percentages(opts)

_get_edit_observation_suggested_values(opts) ==
    IF CONF_OBSERVATIONS \notin DOMAIN opts \/ "index" \notin DOMAIN opts
    THEN ("raised" :> Str("KeyError"))
    ELSE LET idx == IntOfStr(opts["index"].s)
         IN  IF idx >= Len(Obs(opts)) THEN ("raised" :> Str("IndexError"))
             ELSE _convert_fractions_to_percentages(Obs(opts)[idx + 1])

\* the vol.Optional keys of each schema
OptionalKeys(schemaName) ==
    CASE schemaName \in {"CONFIG_SCHEMA", "OPTIONS_SCHEMA"} -> {CONF_DEVICE_CLASS}
      [] schemaName \in {"STATE_SUBSCHEMA+ADD_ANOTHER", "TEMPLATE_SUBSCHEMA+ADD_ANOTHER"}
            -> {"add_another"}
      [] schemaName = "NUMERIC_STATE_SUBSCHEMA+ADD_ANOTHER"
            -> {"above", "below", "add_another"}
      [] schemaName = "NUMERIC_STATE_SUBSCHEMA" -> {"above", "below"}
      [] OTHER -> {}

\* ------------------------------------------------------------------------
\* Validators
\* ------------------------------------------------------------------------

Outcome(err, opts, result) == [err |-> err, options |-> opts, result |-> result]

NumEq(v, n) == v.n = DoubleOfInt(n)

M_validate_user_threshold_first(opts, user_input) ==
    IF NumEq(user_input[CONF_PROBABILITY_THRESHOLD], 0)
    THEN Outcome("threshold_low_error", opts, EmptyDict)
    ELSE IF NumEq(user_input[CONF_PROBABILITY_THRESHOLD], 100)
    THEN Outcome("threshold_high_error", opts, EmptyDict)
    ELSE IF NumEq(user_input[CONF_PRIOR], 0)
    THEN Outcome("prior_low_error", opts, EmptyDict)
    ELSE IF NumEq(user_input[CONF_PRIOR], 100)
    THEN Outcome("prior_high_error", opts, EmptyDict)
    ELSE Outcome("", opts, _convert_percentages_to_fractions(user_input))

M_validate_user_no_high_check(opts, user_input) ==
    IF NumEq(user_input[CONF_PRIOR], 0)
    THEN Outcome("prior_low_error", opts, EmptyDict)
    ELSE IF NumEq(user_input[CONF_PROBABILITY_THRESHOLD], 0)
    THEN Outcome("threshold_low_error", opts, EmptyDict)
    ELSE Outcome("", opts, _convert_percentages_to_fractions(user_input))

_validate_user(opts, user_input) ==
    IF NumEq(user_input[CONF_PRIOR], 0)
    THEN Outcome("prior_low_error", opts, EmptyDict)
    ELSE IF NumEq(user_input[CONF_PRIOR], 100)
    THEN Outcome("prior_high_error", opts, EmptyDict)
    ELSE IF NumEq(user_input[CONF_PROBABILITY_THRESHOLD], 0)
    THEN Outcome("threshold_low_error", opts, EmptyDict)
    ELSE IF NumEq(user_input[CONF_PROBABILITY_THRESHOLD], 100)
    THEN Outcome("threshold_high_error", opts, EmptyDict)
    ELSE Outcome("", opts, _convert_percentages_to_fractions(user_input))

M_EditingIndex_as_int(opts) ==
    "index" \in DOMAIN opts /\ IntOfStr(opts["index"].s) # 0

\* `if idx := handler.options.get("index")`: the key is present and its value
\* (the string the select form stored) is truthy
EditingIndex(opts) == "index" \in DOMAIN opts /\ Truthy(opts["index"])

\* the tail of _validate_observation_setup, after the equal_probabilities test
StoreObservation(opts, user_input0) ==
    LET add_another == "add_another" \in DOMAIN user_input0
                       /\ Truthy(user_input0["add_another"])
        user_input  == _convert_percentages_to_fractions(
                           Without(user_input0, {"add_another"}))
        \* handler.options.setdefault(CONF_OBSERVATIONS, [])
        opts1 == IF CONF_OBSERVATIONS \in DOMAIN opts THEN opts
                 ELSE Update(opts, (CONF_OBSERVATIONS :> List(<<>>)))
        observations == Obs(opts1)
        result == IF add_another THEN ("add_another" :> Bool(TRUE)) ELSE EmptyDict
    IN  IF EditingIndex(opts1)
        THEN LET i == IntOfStr(opts1["index"].s)
             IN  IF i >= Len(observations) THEN Outcome("IndexError", opts1, EmptyDict)
                 ELSE Outcome("",
                         [opts1 EXCEPT ![CONF_OBSERVATIONS] =
                             List([observations EXCEPT ![i + 1] = user_input])],
                         result)
        ELSE Outcome("",
                [opts1 EXCEPT ![CONF_OBSERVATIONS] = List(Append(observations, user_input))],
                result)

M_validate_observation_setup_no_equal_test(opts, user_input) ==
    StoreObservation(opts, user_input)

_validate_observation_setup(opts, user_input) ==
    IF user_input[CONF_P_GIVEN_T].n = user_input[CONF_P_GIVEN_F].n
    THEN Outcome("equal_probabilities", opts, EmptyDict)
    ELSE StoreObservation(opts, user_input)

\* next step of the observation forms; the host calls it with handler.options
_choose_observation_step(user_input) ==
    IF "add_another" \in DOMAIN user_input /\ Truthy(user_input["add_another"])
    THEN "observation_selector"
    ELSE "None"

SchemaFlowErrors ==
    {"prior_low_error", "prior_high_error", "threshold_low_error",
     "threshold_high_error", "equal_probabilities"}

\* ------------------------------------------------------------------------
\* The host's flow engine (SchemaCommonFlowHandler), as far as the steps use it
\* ------------------------------------------------------------------------

\* the schema of a form step: static, or computed from handler.options
GetSchema(fs, opts) ==
    CASE fs.schema = "_get_select_observation_schema"
            -> _get_select_observation_schema(opts)
      [] fs.schema = "_get_edit_observation_schema"
            -> _get_edit_observation_schema(opts)
      [] fs.schema = "_get_remove_observation_schema"
            -> _get_remove_observation_schema(opts)
      [] OTHER -> SchemaNamed(fs.schema)

\* the values a form is pre-filled with
Suggested(fs, opts) ==
    CASE fs.suggested_values = "UNDEFINED" -> opts
      [] fs.suggested_values = "_get_base_suggested_values"
            -> _get_base_suggested_values(opts)
      [] fs.suggested_values = "_get_edit_observation_suggested_values"
            -> _get_edit_observation_suggested_values(opts)
      [] OTHER -> EmptyDict

\* the form or menu of step stepId
Show(kind, stepId, opts) ==
    LET fs == FlowOf(kind)[stepId]
    IN  IF fs.type = "menu"
        THEN [schema |-> [name |-> "menu", choices |-> Range(fs.menu)],
              suggested |-> EmptyDict]
        ELSE [schema |-> GetSchema(fs, opts), suggested |-> Suggested(fs, opts)]

NoForm == [schema |-> SchemaNamed("none"), suggested |-> EmptyDict]

\* values.update(user_input), then every optional key the input omits is removed
UpdateAndRemoveOmitted(values, user_input, optional) ==
    Without(Update(values, user_input), optional \ DOMAIN user_input)

\* form_step.validate_user_input(handler, user_input)
Validate(fs, opts, user_input) ==
    CASE fs.validate_user_input = "_validate_user"
            -> _validate_user(opts, user_input)
      [] fs.validate_user_input = "_validate_observation_setup"
            -> _validate_observation_setup(opts, user_input)
      [] fs.validate_user_input = "_validate_remove_observation"
            -> Outcome("NameError", opts, EmptyDict)
      [] OTHER -> Outcome("", opts, user_input)

\* form_step.next_step, called with handler.options when it is a function
NextStepId(fs, opts) ==
    IF fs.next_step = "_choose_observation_step"
    THEN _choose_observation_step(opts)
    ELSE fs.next_step

\* ------------------------------------------------------------------------
\* Form inputs
\* ------------------------------------------------------------------------

DeviceClassChoice == {EmptyDict, (CONF_DEVICE_CLASS :> Str("motion"))}

BaseInputs ==
    {(CONF_PRIOR :> Pct(p)) @@ (CONF_PROBABILITY_THRESHOLD :> Pct(q)) @@ dc :
        p \in PriorPcts, q \in ThresholdPcts, dc \in DeviceClassChoice}

PlatformFields(platform) ==
    CASE platform = "state"
            -> ("entity_id" :> Str("sensor.a")) @@ ("to_state" :> Str("on"))
      [] platform = "numeric_state"
            -> ("entity_id" :> Str("sensor.a")) @@ ("above" :> Pct(7))
      [] OTHER -> (CONF_VALUE_TEMPLATE :> Str("{{ 1 }}"))

ObservationInputs(platform, names) ==
    {(CONF_PLATFORM :> Str(platform)) @@ PlatformFields(platform)
        @@ (CONF_NAME :> Str(nm))
        @@ (CONF_P_GIVEN_T :> Pct(pt)) @@ (CONF_P_GIVEN_F :> Pct(pf)) :
        nm \in names, pt \in TruePcts, pf \in FalsePcts}

AddAnotherChoice == {("add_another" :> Bool(TRUE)), ("add_another" :> Bool(FALSE))}

\* the inputs the shown form accepts
FormInputs(schema) ==
    CASE schema.name = "CONFIG_SCHEMA"
            -> {(CONF_NAME :> Str("Bayesian")) @@ b : b \in BaseInputs}
      [] schema.name = "OPTIONS_SCHEMA" -> BaseInputs
      [] schema.name = "STATE_SUBSCHEMA+ADD_ANOTHER"
            -> {o @@ a : o \in ObservationInputs("state", AddNames), a \in AddAnotherChoice}
      [] schema.name = "NUMERIC_STATE_SUBSCHEMA+ADD_ANOTHER"
            -> {o @@ a : o \in ObservationInputs("numeric_state", AddNames), a \in AddAnotherChoice}
      [] schema.name = "TEMPLATE_SUBSCHEMA+ADD_ANOTHER"
            -> {o @@ a : o \in ObservationInputs("template", AddNames), a \in AddAnotherChoice}
      [] schema.name = "STATE_SUBSCHEMA" -> ObservationInputs("state", EditNames)
      [] schema.name = "NUMERIC_STATE_SUBSCHEMA" -> ObservationInputs("numeric_state", EditNames)
      [] schema.name = "TEMPLATE_SUBSCHEMA" -> ObservationInputs("template", EditNames)
      [] schema.name = "select" -> {("index" :> Str(s)) : s \in schema.choices}
      [] schema.name = "remove"
            -> {("index" :> List(<<s>>)) : s \in schema.choices}
               \cup {("index" :> List([i \in 1..Cardinality(schema.choices)
                                           |-> StrOfIndex[i]]))}
      [] OTHER -> {}

\* ------------------------------------------------------------------------
\* Flows
\* ------------------------------------------------------------------------

\* the record of an operation: the step it acted on, its input, handler.options
\* and the entry as they were before it, and the error it ended with
LastOp(op, stepId, kind, input, before, err) ==
    [op |-> op, step |-> stepId, flow |-> kind, input |-> input,
     before |-> before, entry |-> entry, err |-> err]

FlowInit ==
    /\ entry = <<>>
    /\ flow = "none"
    /\ step = "none"
    /\ options = EmptyDict
    /\ shown = NoForm
    /\ last = LastOp("none", "none", "none", EmptyDict, EmptyDict, "")
    /\ validObs = 0
    /\ nflows = 0

ConvIdle ==
    /\ convIn = EmptyDict
    /\ convOut = EmptyDict
    /\ convBack = EmptyDict
    /\ convPc = "input"

WsIdle ==
    /\ wsReq = EmptyDict
    /\ wsPc = "idle"
    /\ wsErrors = {}
    /\ wsSent = <<>>
    /\ wsSubs = {}
    /\ wsPreviews = {}

Init == FlowInit /\ ConvIdle /\ WsIdle

\* the config flow starts at the user step with empty options
StartConfigFlow ==
    /\ flow = "none"
    /\ entry = <<>>
    /\ nflows < MaxFlows
    /\ flow' = "config"
    /\ step' = "user"
    /\ options' = EmptyDict
    /\ shown' = Show("config", "user", EmptyDict)
    /\ last' = LastOp("start", "user", "config", EmptyDict, options, "")
    /\ validObs' = 0
    /\ nflows' = nflows + 1
    /\ UNCHANGED <<entry, convVars, wsVars>>

\* an options flow starts at the init menu with a deep copy of the entry's options
StartOptionsFlow ==
    /\ flow = "none"
    /\ entry # <<>>
    /\ nflows < MaxFlows
    /\ flow' = "options"
    /\ step' = "init"
    /\ options' = entry[1]
    /\ shown' = Show("options", "init", entry[1])
    /\ last' = LastOp("start", "init", "options", EmptyDict, options, "")
    /\ validObs' = 0
    /\ nflows' = nflows + 1
    /\ UNCHANGED <<entry, convVars, wsVars>>

\* a menu step: the chosen step's form or menu is shown
ChooseMenu ==
    /\ flow # "none"
    /\ FlowOf(flow)[step].type = "menu"
    /\ \E choice \in shown.schema.choices :
        /\ step' = choice
        /\ shown' = Show(flow, choice, options)
        /\ last' = LastOp("menu", step, flow, ("next_step_id" :> Str(choice)), options, "")
    /\ UNCHANGED <<entry, flow, options, validObs, nflows, convVars, wsVars>>

\* a form step is submitted: validate, merge the result into handler.options,
\* then show the next step or finish and persist handler.options
SubmitForm ==
    /\ flow # "none"
    /\ FlowOf(flow)[step].type = "form"
    /\ step \in Range(ObservationTypes)
          => (Len(Obs(options)) < MaxObs /\ validObs < MaxObs)
    /\ \E user_input \in FormInputs(shown.schema) :
        LET fs       == FlowOf(flow)[step]
            v        == Validate(fs, options, user_input)
            optional == OptionalKeys(shown.schema.name)
            opts1    == UpdateAndRemoveOmitted(v.options, v.result, optional)
            nxt      == NextStepId(fs, opts1)
            accepted == IF fs.validate_user_input = "_validate_observation_setup"
                        THEN 1 ELSE 0
        IN  /\ last' = LastOp("submit", step, flow, user_input, options, v.err)
            /\ IF v.err \in SchemaFlowErrors
               THEN \* the form is shown again with the error and the input
                    /\ options' = v.options
                    /\ shown' = [shown EXCEPT !.suggested =
                                    UpdateAndRemoveOmitted(
                                        Suggested(fs, v.options), user_input, optional)]
                    /\ UNCHANGED <<entry, flow, step, validObs>>
               ELSE IF v.err # ""
               THEN \* an exception other than SchemaFlowError: the request fails
                    /\ options' = v.options
                    /\ UNCHANGED <<entry, flow, step, shown, validObs>>
               ELSE IF nxt = "None"
               THEN \* async_create_entry(data=handler.options)
                    /\ entry' = <<opts1>>
                    /\ options' = opts1
                    /\ flow' = "none"
                    /\ step' = "none"
                    /\ shown' = NoForm
                    /\ validObs' = validObs + accepted
               ELSE /\ options' = opts1
                    /\ step' = nxt
                    /\ shown' = Show(flow, nxt, opts1)
                    /\ validObs' = validObs + accepted
                    /\ UNCHANGED <<entry, flow>>
    /\ UNCHANGED <<nflows, convVars, wsVars>>

\* the user closes the dialog: the handler and its options are dropped
AbortFlow ==
    /\ flow # "none"
    /\ flow' = "none"
    /\ step' = "none"
    /\ options' = EmptyDict
    /\ shown' = NoForm
    /\ last' = LastOp("abort", step, flow, EmptyDict, options, "")
    /\ UNCHANGED <<entry, validObs, nflows, convVars, wsVars>>

Next ==
    \/ StartConfigFlow
    \/ StartOptionsFlow
    \/ ChooseMenu
    \/ SubmitForm
    \/ AbortFlow

Spec == Init /\ [][Next]_vars

\* ------------------------------------------------------------------------
\* The conversions on their own
\* ------------------------------------------------------------------------

ConvKeys == {CONF_PRIOR, CONF_P_GIVEN_F, CONF_NAME, "above"}

ConvValues == {Pct(0), Pct(7), Pct(MaxPct), Str("on"), Str("7"), Bool(TRUE)}

\* every whole percentage in the four percentage fields, and dictionaries with
\* any subset of ConvKeys holding any of ConvValues
ConvInputs ==
    {(CONF_PRIOR :> Pct(p)) @@ (CONF_PROBABILITY_THRESHOLD :> Pct(MaxPct - p))
        @@ (CONF_P_GIVEN_T :> Pct(p)) @@ (CONF_P_GIVEN_F :> Pct((p * 3) % (MaxPct + 1)))
        @@ (CONF_NAME :> Str("obs")) @@ ("above" :> Pct(p)) : p \in 0..MaxPct}
    \cup UNION {[K -> ConvValues] : K \in SUBSET ConvKeys}

ConvInit ==
    /\ FlowInit
    /\ WsIdle
    /\ convIn \in ConvInputs
    /\ convOut = EmptyDict
    /\ convBack = EmptyDict
    /\ convPc = "input"

ConvToFractions ==
    /\ convPc = "input"
    /\ convOut' = _convert_percentages_to_fractions(convIn)
    /\ convPc' = "fractions"
    /\ UNCHANGED <<convIn, convBack, flowVars, wsVars>>

ConvToPercentages ==
    /\ convPc = "fractions"
    /\ convBack' = _convert_fractions_to_percentages(convOut)
    /\ convPc' = "percentages"
    /\ UNCHANGED <<convIn, convOut, flowVars, wsVars>>

ConvNext == ConvToFractions \/ ConvToPercentages

SpecConv == ConvInit /\ [][ConvNext]_vars

\* ------------------------------------------------------------------------
\* The preview websocket command
\* ------------------------------------------------------------------------

\* preview events forwarded for one request
MaxEvents == 2

\* the keys of CONFIG_FLOW["template"].schema (the same keys in OPTIONS_FLOW)
TemplateFormKeys ==
    {CONF_PLATFORM, CONF_VALUE_TEMPLATE, CONF_P_GIVEN_T, CONF_P_GIVEN_F,
     CONF_NAME, "add_another"}

\* the host's validators of the template form's fields: TemplateSelector,
\* NumberSelector(min=0, max=100), TextSelector and cv.boolean
FieldValid(key, value) ==
    CASE key = CONF_VALUE_TEMPLATE -> value.t = "str" /\ value.s # "{{ bad"
      [] key \in {CONF_P_GIVEN_T, CONF_P_GIVEN_F}
            -> /\ IsNumber(value)
               /\ ~DoubleLess(DoubleOfInt(MaxPct), value.n)
      [] key = CONF_NAME -> value.t = "str"
      [] key = "add_another" -> value.t = "bool"
      [] OTHER -> TRUE

\* ws_start_preview._validate: the keys whose validator raised vol.Invalid
_validate(schemaKeys, user_input) ==
    {key \in schemaKeys :
        /\ ~(key \notin DOMAIN user_input \/ key = CONF_PLATFORM)
        /\ ~FieldValid(key, user_input[key])}

\* the values a preview request may carry under each key of the form
WsFieldValues(key) ==
    CASE key = CONF_PLATFORM -> {Str("template"), Str("state")}
      [] key = CONF_VALUE_TEMPLATE -> {Str("{{ 1 }}"), Str("{{ bad")}
      [] key = CONF_P_GIVEN_T -> {Pct(80), Pct(150)}
      [] key = CONF_P_GIVEN_F -> {Pct(14)}
      [] key = CONF_NAME -> {Str("obs")}
      [] OTHER -> {Bool(TRUE)}

WsUserInputs ==
    UNION {{f \in [K -> UNION {WsFieldValues(k) : k \in K}] :
                \A k \in K : f[k] \in WsFieldValues(k)} :
           K \in SUBSET TemplateFormKeys}

\* msg, with what the host finds for the flow: for an options flow, whether
\* async_get_entry returns the config entry
WsRequests ==
    {[id |-> i, flow_type |-> ft, entry_found |-> ef, user_input |-> ui] :
        i \in {1, 2}, ft \in {"config_flow", "options_flow"},
        ef \in BOOLEAN, ui \in WsUserInputs}

ResultMsg(id, success, code) ==
    [id |-> id, type |-> "result", success |-> success, code |-> code]

EventMsg(id, kind) == [id |-> id, type |-> "event", success |-> TRUE, code |-> kind]

\* the host's answer to a command handler that raised
HostErrorResult(id, exc) ==
    ResultMsg(id, FALSE,
              IF exc = "HomeAssistantError" THEN "home_assistant_error"
              ELSE "unknown_error")

WsInit ==
    /\ FlowInit
    /\ ConvIdle
    /\ wsReq \in WsRequests
    /\ wsPc = "pending"
    /\ wsErrors = {}
    /\ wsSent = <<>>
    /\ wsSubs = {}
    /\ wsPreviews = {}

\* ws_start_preview, from the message to its return or its exception
WsStartPreview ==
    /\ wsPc = "pending"
    /\ wsPc' = "done"
    /\ LET msg        == wsReq
           user_input == msg.user_input
           errors     == _validate(TemplateFormKeys, user_input)
       IN  IF msg.flow_type # "config_flow" /\ ~msg.entry_found
           THEN \* raise HomeAssistantError, before anything is validated
                /\ wsSent' = Append(wsSent, HostErrorResult(msg.id, "HomeAssistantError"))
                /\ UNCHANGED <<wsErrors, wsSubs, wsPreviews>>
           ELSE IF errors # {}
           THEN /\ wsErrors' = errors
                /\ wsSent' = Append(wsSent, ResultMsg(msg.id, FALSE, "invalid_user_input"))
                /\ UNCHANGED <<wsSubs, wsPreviews>>
           ELSE IF CONF_VALUE_TEMPLATE \notin DOMAIN user_input
           THEN \* user_input["value_template"] raises KeyError
                /\ wsSent' = Append(wsSent, HostErrorResult(msg.id, "KeyError"))
                /\ UNCHANGED <<wsErrors, wsSubs, wsPreviews>>
           ELSE /\ wsSent' = Append(wsSent, ResultMsg(msg.id, TRUE, ""))
                /\ wsSubs' = wsSubs \cup {msg.id}
                /\ wsPreviews' = wsPreviews \cup {msg.id}
                /\ UNCHANGED wsErrors
    /\ UNCHANGED <<wsReq, flowVars, convVars>>

\* async_preview_updated: the preview entity reports a state or an error
WsPreviewUpdated ==
    /\ wsPc = "done"
    /\ wsReq.id \in wsPreviews
    /\ Len(wsSent) <= MaxEvents
    /\ \E kind \in {"error", "state"} :
        wsSent' = Append(wsSent, EventMsg(wsReq.id, kind))
    /\ UNCHANGED <<wsReq, wsPc, wsErrors, wsSubs, wsPreviews, flowVars, convVars>>

WsNext == WsStartPreview \/ WsPreviewUpdated

SpecPreview == WsInit /\ [][WsNext]_vars

\* ------------------------------------------------------------------------
\* Properties
\* ------------------------------------------------------------------------

Submitted(steps) == last.op = "submit" /\ last.step \in steps

Accepted(steps) == Submitted(steps) /\ last.err = ""

\* the observation a form input is stored as
StoredAs(user_input) ==
    _convert_percentages_to_fractions(Without(user_input, {"add_another"}))

Ticked(user_input) ==
    "add_another" \in DOMAIN user_input /\ user_input["add_another"] = Bool(TRUE)

\* C1 (as claimed): whenever an observation form reached through the
\* observation_selector menu is accepted, the observation is appended at the end
\* of options["observations"]: the list grows by one and every earlier entry
\* keeps its position and value, whatever flows were completed before.
C1_AddAppends ==
    Accepted(Range(ObservationTypes)) =>
        Obs(options) = Append(Obs(last.before), StoredAs(last.input))

\* C2: after select_edit_observation stored index i, an accepted edit_observation
\* form replaces the entry at position i by the submitted observation (its
\* percentages converted to fractions); the length and every other entry are
\* unchanged.  The select form stores the submitted index and leads to the edit form.
C2_EditOverwrites ==
    /\ Accepted({"select_edit_observation"}) =>
          /\ step = "edit_observation"
          /\ options["index"] = last.input["index"]
          /\ Obs(options) = Obs(last.before)
    /\ Accepted({"edit_observation"}) =>
          LET i == IntOfStr(last.before["index"].s)
          IN  /\ Len(Obs(options)) = Len(Obs(last.before))
              /\ i < Len(Obs(options))
              /\ Obs(options)[i + 1] = StoredAs(last.input)
              /\ \A j \in 1..Len(Obs(options)) :
                    j # i + 1 => Obs(options)[j] = Obs(last.before)[j]
              /\ entry = <<options>>

\* an edit of the first observation (index "0") of a list of two that changed it
C2_Witness ==
    /\ Accepted({"edit_observation"})
    /\ last.before["index"] = Str("0")
    /\ Len(Obs(last.before)) = 2
    /\ Obs(options)[1] # Obs(last.before)[1]

StrictlyInsideUnit(v) ==
    v.t = "num" /\ DoubleLess(DZero, v.n) /\ DoubleLess(v.n, DoubleOfInt(1))

IsBound(v) == NumEq(v, 0) \/ NumEq(v, MaxPct)

\* C3: the prior and probability_threshold held by a flow or stored in the entry
\* are strictly between 0 and 1, and a user or base_options submission whose
\* prior or probability_threshold is 0 or 100 is rejected and stores nothing.
C3_BaseProbabilitiesInside ==
    /\ \A d \in {options} \cup Range(entry) :
          \A k \in {CONF_PRIOR, CONF_PROBABILITY_THRESHOLD} \cap DOMAIN d :
              StrictlyInsideUnit(d[k])
    /\ (/\ Submitted({"user", "base_options"})
        /\ (IsBound(last.input[CONF_PRIOR])
              \/ IsBound(last.input[CONF_PROBABILITY_THRESHOLD])))
          => /\ last.err \in SchemaFlowErrors
             /\ options = last.before
             /\ entry = last.entry
             /\ step = last.step

\* a base_options submission that was accepted and changed the stored prior
C3_Witness ==
    /\ Accepted({"base_options"})
    /\ entry[1][CONF_PRIOR] # last.before[CONF_PRIOR]
    /\ entry[1][CONF_PRIOR] = Num(Fractions[1])

\* y is x / 100 correctly rounded: 100 * y differs from x by at most half a unit
\* in the last place of y (50 units of the scaled mantissas)
IsHundredth(x, y) ==
    IF IsZero(x) THEN IsZero(y)
    ELSE /\ ~IsZero(y)
         /\ x.exp - y.exp \in 0..7
         /\ LET X == MulSmall(x.man, 2^(x.exp - y.exp))
                Y == MulSmall(y.man, 100)
            IN  /\ ~LimbsLess(MulAdd(X, 1, 50), Y)
                /\ ~LimbsLess(MulAdd(Y, 1, 50), X)

\* C4: _convert_percentages_to_fractions returns a dictionary with the same keys;
\* a number under p_given_true, p_given_false, prior or probability_threshold
\* becomes that number divided by 100; every other key and every value that is
\* not a number is returned unchanged; the input is not modified.
C4_ConvertToFractions ==
    convPc # "input" =>
        /\ DOMAIN convOut = DOMAIN convIn
        /\ \A k \in DOMAIN convIn :
              \* a Python number is an int, a float or a bool
              IF k \in {"p_given_true", "p_given_false", "prior", "probability_threshold"}
                 /\ convIn[k].t \in {"num", "bool"}
              THEN convOut[k].t = "num" /\ IsHundredth(convIn[k].n, convOut[k].n)
              ELSE convOut[k] = convIn[k]

\* an input with a number under prior, a string under p_given_false and a number
\* under a key that is no percentage
C4_Witness ==
    /\ convPc = "fractions"
    /\ DOMAIN convIn = ConvKeys
    /\ convIn[CONF_PRIOR] = Pct(7)
    /\ convIn[CONF_P_GIVEN_F] = Str("7")
    /\ convIn["above"] = Pct(7)
    /\ convOut[CONF_PRIOR] # convIn[CONF_PRIOR]

WholePercentages(d) ==
    \A k \in DOMAIN d \cap Percentages :
        \E p \in 0..MaxPct : d[k] = Pct(p)

\* C5 (as claimed): for whole percentages 0..100, converting to fractions and
\* back gives the input again, and both conversions act on the same four keys.
C5_RoundTrip ==
    /\ Percentages = PercentagesBack
    /\ (convPc = "percentages" /\ WholePercentages(convIn)) => convBack = convIn

\* C6: the config flow goes user, observation_selector, one observation form;
\* an accepted observation form leads back to observation_selector exactly when
\* add_another was ticked and otherwise finishes the flow; every entry holds at
\* least one observation, and a config flow holds as many observations as it
\* accepted observation forms.
C6_ConfigFlowGraph ==
    /\ flow = "config" =>
          /\ step \in {"user", "observation_selector"} \cup Range(ObservationTypes)
          /\ Len(Obs(options)) = validObs
    /\ (last.flow = "config" /\ last.op = "start") => step = "user"
    /\ (last.flow = "config" /\ Accepted({"user"})) => step = "observation_selector"
    /\ (last.flow = "config" /\ last.op = "menu") =>
          /\ last.step = "observation_selector"
          /\ step \in Range(ObservationTypes)
    /\ (last.flow = "config" /\ Accepted(Range(ObservationTypes))) =>
          IF Ticked(last.input)
          THEN flow = "config" /\ step = "observation_selector" /\ entry = <<>>
          ELSE /\ flow = "none"
               /\ entry = <<options>>
               /\ Len(Obs(entry[1])) = validObs
               /\ validObs >= 1
    /\ entry # <<>> => Len(Obs(entry[1])) >= 1

\* a config flow that finished after two observation forms
C6_Witness ==
    /\ last.flow = "config"
    /\ Accepted(Range(ObservationTypes))
    /\ flow = "none"
    /\ Len(Obs(entry[1])) = 2

ExpectedUserError(user_input) ==
    CASE NumEq(user_input[CONF_PRIOR], 0) -> "prior_low_error"
      [] ~NumEq(user_input[CONF_PRIOR], 0) /\ NumEq(user_input[CONF_PRIOR], 100)
            -> "prior_high_error"
      [] ~IsBound(user_input[CONF_PRIOR])
         /\ NumEq(user_input[CONF_PROBABILITY_THRESHOLD], 0) -> "threshold_low_error"
      [] ~IsBound(user_input[CONF_PRIOR])
         /\ ~NumEq(user_input[CONF_PROBABILITY_THRESHOLD], 0)
         /\ NumEq(user_input[CONF_PROBABILITY_THRESHOLD], 100) -> "threshold_high_error"
      [] OTHER -> ""

\* C8: _validate_user reports prior_low_error, else prior_high_error, else
\* threshold_low_error, else threshold_high_error, a bad prior before a bad
\* threshold, and the submission succeeds exactly when none of the four holds.
C8_UserErrorOrder ==
    Submitted({"user", "base_options"}) =>
        /\ last.err = ExpectedUserError(last.input)
        /\ (step # last.step) <=>
              ~(IsBound(last.input[CONF_PRIOR])
                  \/ IsBound(last.input[CONF_PROBABILITY_THRESHOLD]))

\* a submission with prior 100 and threshold 0: the prior's error is reported
C8_Witness ==
    /\ Submitted({"user", "base_options"})
    /\ NumEq(last.input[CONF_PRIOR], 100)
    /\ NumEq(last.input[CONF_PROBABILITY_THRESHOLD], 0)
    /\ last.err = "prior_high_error"

ResultsFor(id) == SelectSeq(wsSent, LAMBDA m : m.id = id /\ m.type = "result")

\* C9 (as claimed, for the requests whose flow the host finds): every handled
\* template/start_preview request got exactly one result message; with a
\* validation error it is a failure with code invalid_user_input, no preview is
\* started and no subscription is stored; otherwise it is a success, a
\* subscription is stored under the message id and preview events follow the
\* success result.
C9_PreviewOutcome ==
    (wsPc = "done" /\ (wsReq.flow_type = "config_flow" \/ wsReq.entry_found)) =>
        LET errors == _validate(TemplateFormKeys, wsReq.user_input)
        IN  /\ Len(ResultsFor(wsReq.id)) = 1
            /\ wsSent[1].type = "result"
            /\ IF errors # {}
               THEN /\ wsSent[1] = ResultMsg(wsReq.id, FALSE, "invalid_user_input")
                    /\ wsReq.id \notin wsPreviews
                    /\ wsReq.id \notin wsSubs
               ELSE /\ wsSent[1] = ResultMsg(wsReq.id, TRUE, "")
                    /\ wsReq.id \in wsSubs

OptionsInitMenu ==
    {"base_options", "observation_selector", "select_edit_observation",
     "remove_observation"}

SubschemaOf(platform) ==
    CASE platform = "state" -> "STATE_SUBSCHEMA"
      [] platform = "numeric_state" -> "NUMERIC_STATE_SUBSCHEMA"
      [] platform = "template" -> "TEMPLATE_SUBSCHEMA"
      [] OTHER -> "None"

\* C10: the init menu offers exactly base_options, observation_selector,
\* select_edit_observation and remove_observation; the flow is at
\* edit_observation only after an accepted select_edit_observation (or a
\* rejected edit form shown again); there options["index"] is present, is a
\* position of options["observations"], and the form shown is that of the
\* selected observation's platform with that observation's values.
C10_EditNeedsSelection ==
    /\ (flow = "options" /\ step = "init") => shown.schema.choices = OptionsInitMenu
    /\ (last.op = "menu" /\ last.step = "init") => step \in OptionsInitMenu
    /\ step = "edit_observation" =>
          /\ flow = "options"
          /\ \/ Accepted({"select_edit_observation"})
             \/ (Submitted({"edit_observation"}) /\ last.err # "")
          /\ "index" \in DOMAIN options
          /\ IntOfStr(options["index"].s) < Len(Obs(options))
          /\ shown.schema.name =
                SubschemaOf(Obs(options)[IntOfStr(options["index"].s) + 1][CONF_PLATFORM].s)
          /\ "raised" \notin DOMAIN shown.suggested
          /\ shown.suggested[CONF_PLATFORM] =
                Obs(options)[IntOfStr(options["index"].s) + 1][CONF_PLATFORM]

\* the edit form of a template observation selected at index "1"
C10_Witness ==
    /\ step = "edit_observation"
    /\ Accepted({"select_edit_observation"})
    /\ options["index"] = Str("1")
    /\ shown.schema.name = "TEMPLATE_SUBSCHEMA"

\* the positions (from 1) ticked in the remove_observation form
SelectedPositions(user_input) ==
    {IntOfStr(user_input["index"].items[k]) + 1 :
        k \in 1..Len(user_input["index"].items)}

RECURSIVE KeepFrom(_, _, _)
\* the observations from position i on whose position is not in selected
KeepFrom(observations, selected, i) ==
    IF i > Len(observations) THEN <<>>
    ELSE (IF i \in selected THEN <<>> ELSE <<observations[i]>>)
         \o KeepFrom(observations, selected, i + 1)

\* C11: in an options flow, a submitted remove_observation form is handled by
\* a defined validator (the request does not end in an exception) and leaves
\* in options["observations"] exactly the observations whose positions were
\* not selected, in their original relative order.
C11_RemoveObservations ==
    Submitted({"remove_observation"}) =>
        /\ last.flow = "options"
        /\ last.err = ""
        /\ Obs(options) =
              KeepFrom(Obs(last.before), SelectedPositions(last.input), 1)

====
